---- MODULE Spec2Model ----
(***************************************************************************)
(* A model of examples/backend-proxy/flask_app.py: the start-up check of   *)
(* the credentials, the proxy route, the webhook route, the health route   *)
(* and the in-memory rate limiter.                                         *)
(*                                                                         *)
(* Python values are tagged records ([t |-> "NoneType"], [t |-> "str",..]) *)
(* so that None, strings, dicts and lists can meet in one comparison.      *)
(* A handler is one action; `trace` lists the calls it made, in order.     *)
(***************************************************************************)
EXTENDS Integers, Sequences, FiniteSets, TLC

VARIABLES
    environ,           \* the process environment read at import time
    lib,               \* the installed flask / requests behaviours that differ by version
    config,            \* the module globals VANITYCERT_*
    phase,             \* "boot", "serving" or "exited"
    exitCode,          \* None while the process lives, PyInt(n) after exit(n)
    request,           \* the request the last handler served
    upstream,          \* what the upstream exchange of that request produced
    response,          \* the handler's (body, status)
    outbound,          \* the requests.request calls the handler made
    trace,             \* the calls the handler made, in order
    clock,             \* time()
    limit,             \* check_rate_limit's limit argument
    window,            \* check_rate_limit's window argument
    rate_limit_cache,  \* the module global rate_limit_cache
    calls,             \* history: every finished check_rate_limit call
    locked,            \* whether callers wrap check_rate_limit in a lock
    pc,                \* per thread: where it stands inside check_rate_limit
    now,               \* per thread: the local `now`
    pruned             \* per thread: the list built by the comprehension

serverVars == <<environ, lib, config, phase, exitCode, request, upstream, response, outbound, trace>>

rateVars == <<clock, limit, window, rate_limit_cache, calls>>

raceVars == <<locked, pc, now, pruned>>

vars == <<environ, lib, config, phase, exitCode, request, upstream, response, outbound, trace,
          clock, limit, window, rate_limit_cache, calls, locked, pc, now, pruned>>

(***************************************************************************)
(* Bounds of the model.                                                    *)
(***************************************************************************)
\* hex digits kept of a digest (64 in hashlib.sha256().hexdigest())
HexLen == 2

\* the rate limiter: largest limit and window tried, last clock value, calls per run
MaxLimit == 2

MaxWindow == 2

MaxClock == 4

MaxCalls == 4

\* concurrent callers of check_rate_limit, and the calls they make between them
NThreads == 2

MaxRaceCalls == 3

MaxRaceClock == 1

Range(s) == {s[i] : i \in 1..Len(s)}

Index(s, x) == CHOOSE i \in 1..Len(s) : s[i] = x

(***************************************************************************)
(* Python values.                                                          *)
(***************************************************************************)
None == [t |-> "NoneType"]

Str(s) == [t |-> "str", s |-> s]

\* a str held character by character (code points), for header values
CpStr(cp) == [t |-> "str", cp |-> cp]

PyInt(n) == [t |-> "int", n |-> n]

Dict(d) == [t |-> "dict", d |-> d]

EmptyList == [t |-> "list", items |-> <<>>]

\* `not v` for the values the program tests
Falsy(v) == v = None \/ v = Str("")

\* dict.get(key): the value, or None
DictGet(v, key) == IF key \in DOMAIN v.d THEN v.d[key] ELSE None

\* the outcome of a call: a value, or an exception
Ok(v) == [raised |-> FALSE, value |-> v]

Raise(e) == [raised |-> TRUE, exc |-> e]

(***************************************************************************)
(* Bodies on the wire, json.loads, jsonify.                                *)
(***************************************************************************)
\* a JSON document: the value it denotes and how it is laid out in bytes
JsonText(v, layout) == [kind |-> "json", value |-> v, layout |-> layout]

\* bytes that are no JSON document
NotJson(text) == [kind |-> "other", text |-> text]

JsonLoads(raw) == IF raw.kind = "json" THEN Ok(raw.value) ELSE Raise("JSONDecodeError")

\* jsonify(v): the value serialised in flask's own layout
Jsonify(v) == JsonText(v, "compact")

Resp(status, body) == [status |-> status, body |-> body]

(***************************************************************************)
(* Configuration and start-up.                                             *)
(***************************************************************************)
DefaultApiUrl == Str("https://app.vanitycert.com/api")

ApiUrls == {None, Str("https://staging.vanitycert.test/api")}

KeyIds == {None, Str(""), Str("vc_pk_abc123def456")}

Keys == {None, Str(""), Str("your_secret_key_here")}

\* the keys an HMAC may be computed under ("" is a legal HMAC key)
SecretSeq == <<Str(""), Str("whsec_a"), Str("whsec_b")>>

WebhookSecrets == {None} \cup Range(SecretSeq)

\* os.environ.get(name, default); an unset variable is held as None
EnvironGet(env, name, default) == IF env[name] = None THEN default ELSE env[name]

LoadConfig(env) ==
    [VANITYCERT_API_URL |-> EnvironGet(env, "VANITYCERT_API_URL", DefaultApiUrl),
     VANITYCERT_API_KEY_ID |-> EnvironGet(env, "VANITYCERT_API_KEY_ID", None),
     VANITYCERT_API_KEY |-> EnvironGet(env, "VANITYCERT_API_KEY", None),
     VANITYCERT_WEBHOOK_SECRET |-> EnvironGet(env, "VANITYCERT_WEBHOOK_SECRET", None)]

StartupRefusesAnd(cfg) == Falsy(cfg.VANITYCERT_API_KEY_ID) /\ Falsy(cfg.VANITYCERT_API_KEY)

\* if not VANITYCERT_API_KEY_ID or not VANITYCERT_API_KEY
StartupRefuses(cfg) == Falsy(cfg.VANITYCERT_API_KEY_ID) \/ Falsy(cfg.VANITYCERT_API_KEY)

(***************************************************************************)
(* The webhook route.                                                      *)
(***************************************************************************)
\* 'sha256='
Sha256Prefix == <<115, 104, 97, 50, 53, 54, 61>>

\* one lowercase hexadecimal digit, as hexdigest() writes it
HexDigit(n) == IF n < 10 THEN 48 + n ELSE 87 + n

\* every body a webhook request of the model may carry, in a fixed order
WebhookBodySeq ==
    <<JsonText(Dict([event |-> Str("certificate.issued"), domain_url |-> Str("x.com")]), "compact"),
      JsonText(Dict([event |-> Str("certificate.issued"), domain_url |-> Str("x.com")]), "spaced"),
      JsonText(Dict([event |-> Str("certificate.validation_failed"), domain_url |-> Str("x.com"),
                     reason |-> Str("dns")]), "compact"),
      JsonText(Dict([event |-> Str("certificate.renewal_failed"), domain_url |-> Str("x.com"),
                     reason |-> Str("acme")]), "compact"),
      JsonText(Dict([event |-> Str("unknown.tag")]), "compact"),
      JsonText(Dict([domain_url |-> Str("x.com")]), "compact"),
      JsonText(Dict([event |-> PyInt(42)]), "compact"),
      JsonText(None, "compact"),
      JsonText(EmptyList, "compact"),
      NotJson("{\"event\":"),
      NotJson("")>>

WebhookBodies == Range(WebhookBodySeq)

\* HMAC-SHA256(key, msg) as a number: an ideal MAC, one value per (key, message)
\* of the model, so that no two of them collide
MacNumber(key, msg) ==
    (Index(SecretSeq, key) - 1) * Len(WebhookBodySeq) + (Index(WebhookBodySeq, msg) - 1)

RECURSIVE Power16(_)
Power16(k) == IF k = 0 THEN 1 ELSE 16 * Power16(k - 1)

\* hmac.new(key, msg, hashlib.sha256).hexdigest(), HexLen digits of it
HexDigest(key, msg) ==
    [i \in 1..HexLen |-> HexDigit((MacNumber(key, msg) \div Power16(HexLen - i)) % 16)]

\* 'sha256=' + hmac.new(secret.encode('utf-8'), payload, hashlib.sha256).hexdigest()
ExpectedSignature(secret, payload) == CpStr(Sha256Prefix \o HexDigest(secret, payload))

IsAscii(s) == \A i \in 1..Len(s.cp) : s.cp[i] < 128

\* hmac.compare_digest(a, b): both str and ASCII, or TypeError
CompareDigest(a, b) ==
    IF a.t # "str" \/ b.t # "str" THEN Raise("TypeError")
    ELSE IF ~IsAscii(a) \/ ~IsAscii(b) THEN Raise("TypeError")
    ELSE Ok(a.cp = b.cp)

VerificationEnabledNotNone(cfg) == cfg.VANITYCERT_WEBHOOK_SECRET # None

\* if VANITYCERT_WEBHOOK_SECRET:
VerificationEnabled(cfg) == ~Falsy(cfg.VANITYCERT_WEBHOOK_SECRET)

\* request.get_json(): the parsed body; a request that does not declare JSON gets
\* None from an old flask and UnsupportedMediaType from a new one
GetJson(req, flaskNonJson) ==
    IF ~req.is_json
    THEN IF flaskNonJson = "None" THEN Ok(None) ELSE Raise("UnsupportedMediaType")
    ELSE IF JsonLoads(req.body).raised THEN Raise("BadRequest") ELSE JsonLoads(req.body)

\* event.get(key) on whatever get_json returned
EventGet(event, key) ==
    IF event.t = "dict" THEN Ok(DictGet(event, key)) ELSE Raise("AttributeError")

ProcessWebhookStrict(event) ==
    LET event_type == DictGet(event, "event")
    IN  IF event_type = Str("certificate.issued") THEN Ok("certificate.issued")
        ELSE IF event_type = Str("certificate.validation_failed")
             THEN Ok("certificate.validation_failed")
        ELSE IF event_type = Str("certificate.renewal_failed")
             THEN Ok("certificate.renewal_failed")
        ELSE Raise("KeyError")

\* process_webhook(event): the branch taken
ProcessWebhook(event) ==
    LET event_type == DictGet(event, "event")
    IN  IF event_type = Str("certificate.issued") THEN Ok("certificate.issued")
        ELSE IF event_type = Str("certificate.validation_failed")
             THEN Ok("certificate.validation_failed")
        ELSE IF event_type = Str("certificate.renewal_failed")
             THEN Ok("certificate.renewal_failed")
        ELSE Ok("unhandled")

InvalidSignature == Resp(401, Jsonify(Dict([error |-> Str("Invalid signature")])))

WebhookFailed == Resp(500, Jsonify(Dict([error |-> Str("Webhook processing failed")])))

StatusOk == Resp(200, Jsonify(Dict([status |-> Str("ok")])))

\* lines 116-125: parse, log, dispatch, answer
WebhookDispatch(req, flaskNonJson, done) ==
    LET parsed == GetJson(req, flaskNonJson)
        t1 == done \o <<"get_json">>
    IN  IF parsed.raised
        THEN [response |-> WebhookFailed, trace |-> t1 \o <<"except:" \o parsed.exc>>]
        ELSE IF EventGet(parsed.value, "event").raised
        THEN [response |-> WebhookFailed,
              trace |-> t1 \o <<"event.get", "except:AttributeError">>]
        ELSE LET branch == ProcessWebhook(parsed.value)
                 t2 == t1 \o <<"event.get", "process_webhook">>
             IN  IF branch.raised
                 THEN [response |-> WebhookFailed, trace |-> t2 \o <<"except:" \o branch.exc>>]
                 ELSE [response |-> StatusOk, trace |-> t2 \o <<"branch:" \o branch.value>>]

\* vanitycert_webhook(): the response and the calls made
VanitycertWebhook(cfg, req, flaskNonJson) ==
    LET payload == req.body
        signature == req.signature
        t0 == <<"get_data", "headers.get">>
    IN  IF VerificationEnabled(cfg)
        THEN LET expected_signature == ExpectedSignature(cfg.VANITYCERT_WEBHOOK_SECRET, payload)
                 cmp == CompareDigest(signature, expected_signature)
                 t1 == t0 \o <<"hmac.new", "compare_digest">>
             IN  IF cmp.raised
                 THEN [response |-> WebhookFailed, trace |-> t1 \o <<"except:" \o cmp.exc>>]
                 ELSE IF ~cmp.value
                 THEN [response |-> InvalidSignature, trace |-> t1]
                 ELSE WebhookDispatch(req, flaskNonJson, t1)
        ELSE WebhookDispatch(req, flaskNonJson, t0)

(***************************************************************************)
(* The proxy route.                                                        *)
(***************************************************************************)
\* timeout=30
UpstreamTimeout == 30

Methods == {"GET", "POST", "PUT", "DELETE"}

ApiPaths == {"domains", "domains/17"}

\* the bodies an inbound proxy request of the model may carry
ProxyBodies ==
    {JsonText(Dict([domain |-> Str("x.com")]), "compact"),
     JsonText(Dict([domain |-> Str("x.com")]), "spaced"),
     JsonText(EmptyList, "compact"),
     JsonText(None, "compact"),
     NotJson("{\"domain\":"),
     NotJson("")}

\* what upstream may answer with: any status, a JSON document or not
UpstreamBodies ==
    {JsonText(Dict([id |-> PyInt(17), status |-> Str("pending")]), "compact"),
     JsonText(Dict([id |-> PyInt(17), status |-> Str("pending")]), "spaced"),
     JsonText(Dict([error |-> Str("not found")]), "compact"),
     NotJson("<html>Bad Gateway</html>"),
     NotJson("")}

UpstreamStatuses == {200, 204, 404, 502}

\* the exceptions requests raises when the exchange itself fails
TransportFailures == {"ConnectionError", "Timeout", "SSLError"}

UpstreamOutcomes ==
    {[kind |-> "response", status_code |-> c, body |-> b] : c \in UpstreamStatuses, b \in UpstreamBodies}
    \cup {[kind |-> "exception", exc |-> e] : e \in TransportFailures}

NotContacted == [kind |-> "none"]

\* requests.Response.json(): the decoded body; the decode error is a
\* RequestException in requests >= 2.27 and a plain ValueError before
ResponseJson(resp, requestsJsonError) ==
    IF JsonLoads(resp.body).raised THEN Raise(requestsJsonError) ELSE JsonLoads(resp.body)

\* whether `except requests.exceptions.RequestException` catches the exception
IsRequestException(exc) ==
    exc \in TransportFailures \cup {"requests.exceptions.JSONDecodeError"}

\* what requests puts on the wire for its json= argument
RequestsBody(json) == IF json = None THEN NotJson("") ELSE JsonText(json, "compact")

ProxyError ==
    Resp(500, Jsonify(Dict([error |-> Dict([code |-> Str("proxy_error"),
                                            message |-> Str("Failed to connect to VanityCert API")])])))

InternalError ==
    Resp(500, Jsonify(Dict([error |-> Dict([code |-> Str("internal_error"),
                                            message |-> Str("Internal server error")])])))

\* the arguments of the one requests.request call
OutboundCall(cfg, req, json) ==
    [method |-> req.method,
     url |-> cfg.VANITYCERT_API_URL.s \o "/" \o req.api_path,
     headers |-> [X_API_KEY_ID |-> cfg.VANITYCERT_API_KEY_ID,
                  X_API_KEY |-> cfg.VANITYCERT_API_KEY,
                  Content_Type |-> "application/json",
                  Accept |-> "application/json"],
     json |-> json,
     timeout |-> UpstreamTimeout]

\* vanitycert_proxy(api_path): the response, the outbound calls, the calls made;
\* `up` is what the exchange produces if the handler gets as far as making it
VanitycertProxy(cfg, req, up, libs) ==
    LET arg == IF req.is_json THEN GetJson(req, libs.flask_non_json) ELSE Ok(None)
        t0 == IF req.is_json THEN <<"get_json">> ELSE <<>>
    IN  IF arg.raised
        THEN [response |-> InternalError, outbound |-> <<>>, upstream |-> NotContacted,
              trace |-> t0 \o <<"except:" \o arg.exc>>]
        ELSE LET call == OutboundCall(cfg, req, arg.value)
                 t1 == t0 \o <<"requests.request">>
             IN  IF up.kind = "exception"
                 THEN [response |-> ProxyError, outbound |-> <<call>>, upstream |-> up,
                       trace |-> t1 \o <<"except:" \o up.exc>>]
                 ELSE LET decoded == ResponseJson(up, libs.requests_json_error)
                          t2 == t1 \o <<"response.json">>
                      IN  IF decoded.raised
                          THEN [response |-> IF IsRequestException(decoded.exc)
                                             THEN ProxyError ELSE InternalError,
                                outbound |-> <<call>>, upstream |-> up,
                                trace |-> t2 \o <<"except:" \o decoded.exc>>]
                          ELSE [response |-> Resp(up.status_code, Jsonify(decoded.value)),
                                outbound |-> <<call>>, upstream |-> up,
                                trace |-> t2 \o <<"jsonify">>]

(***************************************************************************)
(* The server: start-up, then one action per route.                        *)
(***************************************************************************)
Environs ==
    [VANITYCERT_API_URL : ApiUrls, VANITYCERT_API_KEY_ID : KeyIds,
     VANITYCERT_API_KEY : Keys, VANITYCERT_WEBHOOK_SECRET : WebhookSecrets]

Libs ==
    [flask_non_json : {"None", "UnsupportedMediaType"},
     requests_json_error : {"requests.exceptions.JSONDecodeError", "ValueError"}]

NoConfig ==
    [VANITYCERT_API_URL |-> None, VANITYCERT_API_KEY_ID |-> None,
     VANITYCERT_API_KEY |-> None, VANITYCERT_WEBHOOK_SECRET |-> None]

RateIdle ==
    /\ clock = 0
    /\ limit = 0
    /\ window = 0
    /\ rate_limit_cache = <<>>
    /\ calls = <<>>
    /\ locked = FALSE
    /\ pc = <<>>
    /\ now = <<>>
    /\ pruned = <<>>

ServerIdle ==
    /\ environ = None
    /\ lib = None
    /\ config = NoConfig
    /\ phase = "off"
    /\ exitCode = None
    /\ request = None
    /\ upstream = NotContacted
    /\ response = None
    /\ outbound = <<>>
    /\ trace = <<>>

Init ==
    /\ environ \in Environs
    /\ lib \in Libs
    /\ config = NoConfig
    /\ phase = "boot"
    /\ exitCode = None
    /\ request = None
    /\ upstream = NotContacted
    /\ response = None
    /\ outbound = <<>>
    /\ trace = <<>>
    /\ RateIdle

\* lines 28-35: read the environment, exit(1) unless both credentials are set
Startup ==
    /\ phase = "boot"
    /\ config' = LoadConfig(environ)
    /\ IF StartupRefuses(LoadConfig(environ))
       THEN phase' = "exited" /\ exitCode' = PyInt(1)
       ELSE phase' = "serving" /\ exitCode' = None
    /\ UNCHANGED <<environ, lib, request, upstream, response, outbound, trace>>
    /\ UNCHANGED <<rateVars, raceVars>>

\* the signature headers a caller may send with body b: none, the right one, one
\* made for another key or body, one without its prefix, one with a character changed
FlipChars == {48, 65, 233}

Flip(cp, i, c) == [cp EXCEPT ![i] = c]

SignatureHeaders(b) ==
    {None, CpStr(<<>>)}
    \cup {ExpectedSignature(k, b2) : k \in Range(SecretSeq), b2 \in WebhookBodies}
    \cup {CpStr(HexDigest(k, b)) : k \in Range(SecretSeq)}
    \cup {CpStr(Flip(ExpectedSignature(k, b).cp, i, c)) :
            k \in Range(SecretSeq), i \in 1..(Len(Sha256Prefix) + HexLen), c \in FlipChars}

ProxyRequest ==
    /\ phase = "serving"
    /\ request = None
    /\ \E m \in Methods, p \in ApiPaths, j \in BOOLEAN, b \in ProxyBodies, up \in UpstreamOutcomes :
         LET req == [route |-> "proxy", method |-> m, api_path |-> p, is_json |-> j, body |-> b]
             out == VanitycertProxy(config, req, up, lib)
         IN  /\ request' = req
             /\ response' = out.response
             /\ outbound' = out.outbound
             /\ upstream' = out.upstream
             /\ trace' = out.trace
    /\ UNCHANGED <<environ, lib, config, phase, exitCode>>
    /\ UNCHANGED <<rateVars, raceVars>>

WebhookRequest ==
    /\ phase = "serving"
    /\ request = None
    /\ \E j \in BOOLEAN, b \in WebhookBodies :
         \E h \in SignatureHeaders(b) :
            LET req == [route |-> "webhook", method |-> "POST", is_json |-> j, body |-> b,
                        signature |-> h]
                out == VanitycertWebhook(config, req, lib.flask_non_json)
            IN  /\ request' = req
                /\ response' = out.response
                /\ trace' = out.trace
    /\ outbound' = <<>>
    /\ upstream' = NotContacted
    /\ UNCHANGED <<environ, lib, config, phase, exitCode>>
    /\ UNCHANGED <<rateVars, raceVars>>

\* health_check()
HealthRequest ==
    /\ phase = "serving"
    /\ request = None
    /\ request' = [route |-> "health", method |-> "GET"]
    /\ response' = StatusOk
    /\ outbound' = <<>>
    /\ upstream' = NotContacted
    /\ trace' = <<"health_check">>
    /\ UNCHANGED <<environ, lib, config, phase, exitCode>>
    /\ UNCHANGED <<rateVars, raceVars>>

\* the response is sent and the call's data is gone; the server waits for the next call
EndRequest ==
    /\ request # None
    /\ request' = None
    /\ response' = None
    /\ outbound' = <<>>
    /\ upstream' = NotContacted
    /\ trace' = <<>>
    /\ UNCHANGED <<environ, lib, config, phase, exitCode>>
    /\ UNCHANGED <<rateVars, raceVars>>

Next == Startup \/ ProxyRequest \/ WebhookRequest \/ HealthRequest \/ EndRequest

Spec == Init /\ [][Next]_vars

(***************************************************************************)
(* Properties of the server.                                               *)
(***************************************************************************)
Route == IF request = None THEN "none" ELSE request.route

Has(tr, step) == \E i \in 1..Len(tr) : tr[i] = step

Count(tr, S) == Cardinality({i \in 1..Len(tr) : tr[i] \in S})

\* step a occurs in tr and every occurrence of b comes after it
Precedes(tr, a, b) == \A j \in 1..Len(tr) : tr[j] = b => \E i \in 1..(j - 1) : tr[i] = a

\* the same bytes, or two JSON documents denoting the same value
SameJsonDocument(a, b) == a = b \/ (a.kind = "json" /\ b.kind = "json" /\ a.value = b.value)

Branches ==
    {"branch:certificate.issued", "branch:certificate.validation_failed",
     "branch:certificate.renewal_failed", "branch:unhandled"}

\* C1: with a webhook secret configured, the header 'sha256=' + hex(HMAC(secret, body))
\* passes verification, every other header string is answered 401 "Invalid signature"
\* without process_webhook being called, and the comparison precedes parsing and dispatch.
C1_SignatureDecides ==
    (Route = "webhook" /\ VerificationEnabled(config)) =>
        LET good == ExpectedSignature(config.VANITYCERT_WEBHOOK_SECRET, request.body)
        IN  /\ request.signature = good =>
                (Has(trace, "get_json") /\ response # InvalidSignature)
            /\ (request.signature.t = "str" /\ request.signature # good) =>
                (response = InvalidSignature /\ ~Has(trace, "process_webhook"))
            /\ Precedes(trace, "compare_digest", "get_json")
            /\ Precedes(trace, "compare_digest", "process_webhook")

\* C2: with a webhook secret configured and no signature header, the request is answered
\* 401 "Invalid signature", the absent value never reaches compare_digest, and the
\* event is not dispatched.
C2_MissingHeaderIs401 ==
    (Route = "webhook" /\ VerificationEnabled(config) /\ request.signature = None) =>
        /\ response = InvalidSignature
        /\ ~Has(trace, "compare_digest")
        /\ ~Has(trace, "process_webhook")

\* C3 as stated: with no webhook secret configured, every request whose body is
\* well-formed JSON, whatever its value, reaches process_webhook and is answered 200.
C3_AnyJsonReachesDispatch ==
    (Route = "webhook" /\ Falsy(config.VANITYCERT_WEBHOOK_SECRET) /\ request.body.kind = "json") =>
        /\ response = StatusOk
        /\ Has(trace, "process_webhook")
        /\ ~Has(trace, "compare_digest")

\* C3 amended: with no webhook secret configured, every request that declares JSON
\* content and whose body is a well-formed JSON object reaches process_webhook and is
\* answered 200 {"status": "ok"}, whatever the signature header; no signature is computed.
C3_JsonObjectReachesDispatch ==
    (/\ Route = "webhook"
     /\ Falsy(config.VANITYCERT_WEBHOOK_SECRET)
     /\ request.is_json
     /\ request.body.kind = "json"
     /\ request.body.value.t = "dict") =>
        /\ response = StatusOk
        /\ Has(trace, "process_webhook")
        /\ ~Has(trace, "hmac.new")
        /\ ~Has(trace, "compare_digest")

C3_Witness ==
    /\ Route = "webhook"
    /\ Falsy(config.VANITYCERT_WEBHOOK_SECRET)
    /\ request.signature # None
    /\ request.signature # CpStr(<<>>)
    /\ response = StatusOk
    /\ Has(trace, "process_webhook")

\* C4: whenever upstream delivered a response, whatever its status and whether or not
\* its body is JSON, the caller gets that status and that body.
C4_RelaysUpstreamResponse ==
    (Route = "proxy" /\ upstream.kind = "response") =>
        /\ response.status = upstream.status_code
        /\ SameJsonDocument(response.body, upstream.body)

\* C5: a proxy call ends in the relayed upstream response, in proxy_error or in
\* internal_error; proxy_error if and only if the exchange with upstream failed at the
\* network level, internal_error for every other failure.
C5_ErrorSurface ==
    Route = "proxy" =>
        /\ \/ response = ProxyError
           \/ response = InternalError
           \/ (upstream.kind = "response" /\ response.status = upstream.status_code
               /\ SameJsonDocument(response.body, upstream.body))
        /\ response = ProxyError <=> upstream.kind = "exception"
        /\ ((\E i \in 1..Len(trace) : trace[i] \notin {"get_json", "requests.request",
                                                       "response.json", "jsonify"})
            /\ upstream.kind # "exception") => response = InternalError

\* C6: a proxy call makes at most one outbound request, with the inbound method, the URL
\* <base>/<path>, the two credentials as headers and a JSON body equal to the inbound one
\* when the inbound request declared JSON (no body otherwise); a transport failure is
\* answered proxy_error after that one request.
C6_OneFaithfulOutboundRequest ==
    Route = "proxy" =>
        /\ Len(outbound) <= 1
        /\ \A i \in 1..Len(outbound) :
             /\ outbound[i].method = request.method
             /\ outbound[i].url = config.VANITYCERT_API_URL.s \o "/" \o request.api_path
             /\ outbound[i].headers.X_API_KEY_ID = config.VANITYCERT_API_KEY_ID
             /\ outbound[i].headers.X_API_KEY = config.VANITYCERT_API_KEY
             /\ IF request.is_json
                THEN SameJsonDocument(RequestsBody(outbound[i].json), request.body)
                ELSE RequestsBody(outbound[i].json) = NotJson("")
        /\ upstream.kind = "exception" => (Len(outbound) = 1 /\ response = ProxyError)

\* the branch the `event` tag of a parsed event object selects
TagBranch(event) ==
    LET tag == DictGet(event, "event")
    IN  IF tag \in {Str("certificate.issued"), Str("certificate.validation_failed"),
                    Str("certificate.renewal_failed")}
        THEN "branch:" \o tag.s ELSE "branch:unhandled"

\* C7: a webhook request that got past verification and whose body parsed to an event
\* object is answered 200 {"status": "ok"} for every `event` tag, through exactly one
\* handler branch, the default one for an unrecognised or missing tag; a request that
\* got past verification and failed in parsing or dispatch is answered 500
\* "Webhook processing failed", and no request that was parsed is answered 401.
C7_DispatchNeverChangesResponse ==
    (Route = "webhook" /\ Has(trace, "get_json")) =>
        IF request.is_json /\ request.body.kind = "json" /\ request.body.value.t = "dict"
        THEN /\ response = StatusOk
             /\ Count(trace, {"process_webhook"}) = 1
             /\ Count(trace, Branches) = 1
             /\ Has(trace, TagBranch(request.body.value))
        ELSE /\ response = WebhookFailed
             /\ Count(trace, Branches) = 0

C7_Witness ==
    /\ Route = "webhook"
    /\ VerificationEnabled(config)
    /\ request.body.kind = "json"
    /\ request.body.value = Dict([event |-> Str("unknown.tag")])
    /\ response = StatusOk
    /\ Has(trace, "branch:unhandled")

\* C9: a process whose key identifier or key secret is unset or empty exits with a
\* non-zero status and serves nothing; whenever a request is served both credentials
\* are non-empty and the configuration is the one read at start-up.
C9_NoServiceWithoutCredentials ==
    /\ (phase # "boot" /\ (Falsy(environ.VANITYCERT_API_KEY_ID) \/ Falsy(environ.VANITYCERT_API_KEY))) =>
            (phase = "exited" /\ exitCode # None /\ exitCode # PyInt(0) /\ request = None)
    /\ phase = "exited" => (request = None /\ response = None)
    /\ request # None =>
            /\ phase = "serving"
            /\ exitCode = None
            /\ ~Falsy(config.VANITYCERT_API_KEY_ID)
            /\ ~Falsy(config.VANITYCERT_API_KEY)
            /\ config = LoadConfig(environ)

C9_Witness ==
    /\ Route = "health"
    /\ response = StatusOk
    /\ config.VANITYCERT_API_URL = DefaultApiUrl

(***************************************************************************)
(* The rate limiter, called sequentially.                                  *)
(***************************************************************************)
Users == {"alice", "bob"}

\* key = f'ratelimit:{user_id}'
Key(user_id) == "ratelimit:" \o user_id

PruneShortWindow(list, t, win) == SelectSeq(list, LAMBDA req_time : t - req_time < win - 1)

\* [req_time for req_time in list if now - req_time < window]
Prune(list, t, win) == SelectSeq(list, LAMBDA req_time : t - req_time < win)

AtLimitOffByOne(n, lim) == n > lim

\* len(rate_limit_cache[key]) >= limit
AtLimit(n, lim) == n >= lim

\* if key not in rate_limit_cache: rate_limit_cache[key] = []
WithKey(cache, key) == IF key \in DOMAIN cache THEN cache ELSE cache @@ (key :> <<>>)

\* check_rate_limit(user_id, limit, window) run to its end at time t:
\* the cache it leaves and whether it raised 'Rate limit exceeded'
CheckRateLimit(cache, user_id, t, lim, win) ==
    LET key == Key(user_id)
        c1 == WithKey(cache, key)
        c2 == [c1 EXCEPT ![key] = Prune(c1[key], t, win)]
    IN  IF AtLimit(Len(c2[key]), lim)
        THEN [cache |-> c2, raised |-> TRUE]
        ELSE [cache |-> [c2 EXCEPT ![key] = Append(c2[key], t)], raised |-> FALSE]

RaceIdle ==
    /\ locked = FALSE
    /\ pc = <<>>
    /\ now = <<>>
    /\ pruned = <<>>

InitRate ==
    /\ ServerIdle
    /\ RaceIdle
    /\ clock = 0
    /\ limit \in 1..MaxLimit
    /\ window \in 1..MaxWindow
    /\ rate_limit_cache = <<>>
    /\ calls = <<>>

\* time passes between calls
Tick ==
    /\ clock < MaxClock
    /\ clock' = clock + 1
    /\ UNCHANGED <<limit, window, rate_limit_cache, calls>>
    /\ UNCHANGED <<serverVars, raceVars>>

\* one call of check_rate_limit, from its first line to its last
Call ==
    /\ Len(calls) < MaxCalls
    /\ \E u \in Users :
         LET out == CheckRateLimit(rate_limit_cache, u, clock, limit, window)
         IN  /\ rate_limit_cache' = out.cache
             /\ calls' = Append(calls, [user |-> u, t |-> clock, admitted |-> ~out.raised])
    /\ UNCHANGED <<clock, limit, window>>
    /\ UNCHANGED <<serverVars, raceVars>>

NextRate == Tick \/ Call

SpecRate == InitRate /\ [][NextRate]_vars

\* the admitted calls for u among the first k calls whose timestamp s has t - s < window
AdmittedWithin(u, t, k) ==
    Cardinality({j \in 1..k : calls[j].user = u /\ calls[j].admitted /\ t - calls[j].t < window})

\* the timestamps of the admitted calls for u, in call order
AdmittedTimes(u) ==
    LET mine == SelectSeq(calls, LAMBDA c : c.user = u /\ c.admitted)
    IN  [i \in 1..Len(mine) |-> mine[i].t]

LastCallTime(u) ==
    LET mine == SelectSeq(calls, LAMBDA c : c.user = u)
    IN  mine[Len(mine)].t

\* C8: with a non-decreasing clock and fixed limit L >= 1 and window W, a call for u at
\* time t is rejected exactly when at least L earlier admitted calls for u have a
\* timestamp s with t - s < W; the stored list for u is the admitted timestamps still in
\* the window of u's last call and never holds more than L of them; no more than L calls
\* for u are admitted in an interval shorter than W; and a call made when every admitted
\* call for u is at least W old is admitted.
C8_SlidingWindow ==
    /\ \A i \in 1..Len(calls) :
         LET u == calls[i].user
             t == calls[i].t
         IN  /\ ~calls[i].admitted <=> AdmittedWithin(u, t, i - 1) >= limit
             /\ calls[i].admitted => AdmittedWithin(u, t, i) <= limit
             /\ AdmittedWithin(u, t, i - 1) = 0 => calls[i].admitted
    /\ \A u \in Users :
         IF \E i \in 1..Len(calls) : calls[i].user = u
         THEN /\ Key(u) \in DOMAIN rate_limit_cache
              /\ rate_limit_cache[Key(u)] = Prune(AdmittedTimes(u), LastCallTime(u), window)
              /\ Len(rate_limit_cache[Key(u)]) <= limit
         ELSE Key(u) \notin DOMAIN rate_limit_cache

\* a call was rejected at the limit and, the window having elapsed, a later one admitted
C8_Witness ==
    \E i, j \in 1..Len(calls) :
        /\ i < j
        /\ calls[i].user = calls[j].user
        /\ ~calls[i].admitted
        /\ calls[j].admitted
        /\ calls[j].t - calls[i].t >= window
        /\ AdmittedWithin(calls[j].user, calls[j].t, j - 1) = 0

(***************************************************************************)
(* The rate limiter, called from several threads for one identifier.       *)
(* Without a lock a thread may be preempted between any two statements of  *)
(* check_rate_limit; with a lock around the call, the call is one step.    *)
(***************************************************************************)
Threads == 1..NThreads

RaceUser == "alice"

InFlight == Cardinality({th \in Threads : pc[th] # "idle"})

InitRace ==
    /\ ServerIdle
    /\ locked \in BOOLEAN
    /\ pc = [th \in Threads |-> "idle"]
    /\ now = [th \in Threads |-> 0]
    /\ pruned = [th \in Threads |-> <<>>]
    /\ clock = 0
    /\ limit \in 1..MaxLimit
    /\ window \in 1..MaxWindow
    /\ rate_limit_cache = <<>>
    /\ calls = <<>>

TickRace ==
    /\ clock < MaxRaceClock
    /\ clock' = clock + 1
    /\ UNCHANGED <<limit, window, rate_limit_cache, calls>>
    /\ UNCHANGED <<serverVars, raceVars>>

\* the whole call under a lock
LockedCall(th) ==
    /\ locked
    /\ Len(calls) < MaxRaceCalls
    /\ LET out == CheckRateLimit(rate_limit_cache, RaceUser, clock, limit, window)
       IN  /\ rate_limit_cache' = out.cache
           /\ calls' = Append(calls, [user |-> RaceUser, t |-> clock, admitted |-> ~out.raised])
    /\ now' = [now EXCEPT ![th] = clock]
    /\ UNCHANGED <<clock, limit, window, locked, pc, pruned>>
    /\ UNCHANGED serverVars

\* now = time(); key = ...; if key not in rate_limit_cache: rate_limit_cache[key] = []
Enter(th) ==
    /\ ~locked
    /\ pc[th] = "idle"
    /\ Len(calls) + InFlight < MaxRaceCalls
    /\ now' = [now EXCEPT ![th] = clock]
    /\ rate_limit_cache' = WithKey(rate_limit_cache, Key(RaceUser))
    /\ pc' = [pc EXCEPT ![th] = "comprehension"]
    /\ UNCHANGED <<clock, limit, window, calls, locked, pruned>>
    /\ UNCHANGED serverVars

\* the list comprehension is evaluated over the list now in the cache
Comprehension(th) ==
    /\ pc[th] = "comprehension"
    /\ pruned' = [pruned EXCEPT ![th] = Prune(rate_limit_cache[Key(RaceUser)], now[th], window)]
    /\ pc' = [pc EXCEPT ![th] = "store"]
    /\ UNCHANGED <<clock, limit, window, rate_limit_cache, calls, locked, now>>
    /\ UNCHANGED serverVars

\* rate_limit_cache[key] = <the new list>
Store(th) ==
    /\ pc[th] = "store"
    /\ rate_limit_cache' = [rate_limit_cache EXCEPT ![Key(RaceUser)] = pruned[th]]
    /\ pc' = [pc EXCEPT ![th] = "check"]
    /\ UNCHANGED <<clock, limit, window, calls, locked, now, pruned>>
    /\ UNCHANGED serverVars

\* if len(rate_limit_cache[key]) >= limit: raise Exception('Rate limit exceeded')
Check(th) ==
    /\ pc[th] = "check"
    /\ IF AtLimit(Len(rate_limit_cache[Key(RaceUser)]), limit)
       THEN /\ calls' = Append(calls, [user |-> RaceUser, t |-> now[th], admitted |-> FALSE])
            /\ pc' = [pc EXCEPT ![th] = "idle"]
       ELSE /\ calls' = calls
            /\ pc' = [pc EXCEPT ![th] = "append"]
    /\ UNCHANGED <<clock, limit, window, rate_limit_cache, locked, now, pruned>>
    /\ UNCHANGED serverVars

\* rate_limit_cache[key].append(now)
AppendNow(th) ==
    /\ pc[th] = "append"
    /\ rate_limit_cache' = [rate_limit_cache EXCEPT ![Key(RaceUser)] = Append(@, now[th])]
    /\ calls' = Append(calls, [user |-> RaceUser, t |-> now[th], admitted |-> TRUE])
    /\ pc' = [pc EXCEPT ![th] = "idle"]
    /\ UNCHANGED <<clock, limit, window, locked, now, pruned>>
    /\ UNCHANGED serverVars

NextRace ==
    \/ TickRace
    \/ \E th \in Threads : LockedCall(th)
    \/ \E th \in Threads : Enter(th)
    \/ \E th \in Threads : Comprehension(th)
    \/ \E th \in Threads : Store(th)
    \/ \E th \in Threads : Check(th)
    \/ \E th \in Threads : AppendNow(th)

SpecRace == InitRace /\ [][NextRace]_vars

CallTimes == {calls[i].t : i \in 1..Len(calls)}

\* more than `limit` admitted calls have their timestamps within one window
OverAdmitted ==
    \E t \in CallTimes :
        Cardinality({j \in 1..Len(calls) :
                        calls[j].admitted /\ calls[j].t <= t /\ t - calls[j].t < window}) > limit

Occurrences(list, s) == Cardinality({i \in 1..Len(list) : list[i] = s})

\* no call is running, and a timestamp that no call made so far could have pruned
\* is stored fewer times than calls were admitted with it
LostTimestamp ==
    /\ \A th \in Threads : pc[th] = "idle"
    /\ \E s \in CallTimes :
         /\ \A t \in CallTimes : t - s < window
         /\ Occurrences(rate_limit_cache[Key(RaceUser)], s)
              < Cardinality({j \in 1..Len(calls) : calls[j].admitted /\ calls[j].t = s})

\* C10: when every call of check_rate_limit for an identifier runs under a lock, no
\* execution admits more than `limit` calls within one window or loses an admitted
\* call's timestamp; without the lock such an execution exists (the witness).
C10_LockedIsSafe == locked => (~OverAdmitted /\ ~LostTimestamp)

C10_Witness == ~locked /\ OverAdmitted /\ LostTimestamp

====
